---- MODULE Spec2Model ----
\* One invocation of merge(context, pullRequest) of lib/merge.js against a
\* remote service whose answers are chosen nondeterministically.
EXTENDS Integers, Sequences, FiniteSets, TLC

\* ------------------------------------------------------------------ bounds

\* Largest configured retry count (config.mergeRetries ranges over 0..MaxRetries).
MaxRetries == 2

\* ------------------------------------------------------------- value domains

\* JavaScript null / undefined.
NULL == "<null>"

MAYBE_READY == {"clean", "has_hooks", "unknown", "unstable"}

NOT_READY == {"dirty", "draft"}

\* mergeable_state values the remote can report: the listed ones, two the
\* code does not list, and absence.
MergeableStates == MAYBE_READY \cup NOT_READY \cup {"blocked", "behind", NULL}

Labels == {"automerge", "wip"}

BaseRepo == "org/repo"

ForkRepo == "fork/repo"

EntrySha == "sha-entry"

Shas == {EntrySha, "sha-pushed"}

CheckNames == {"ci"}

Conclusions == {"success", "failure"}

CheckRuns == [name : CheckNames, conclusion : Conclusions]

ReviewStates == {"APPROVED", "CHANGES_REQUESTED"}

\* Review lists of the remote: none, one review, a review overridden by a
\* later one of the same reviewer.
ReviewLists ==
    {<<>>, <<"APPROVED">>, <<"CHANGES_REQUESTED">>,
     <<"CHANGES_REQUESTED", "APPROVED">>, <<"APPROVED", "CHANGES_REQUESTED">>}

\* ------------------------------------------------------- merge error messages

\* Messages are sequences of tokens; String.prototype.includes is the search
\* for a contiguous run of tokens.
includes(m, phrase) ==
    \E i \in 0..(Len(m) - Len(phrase)) : SubSeq(m, i + 1, i + Len(phrase)) = phrase

ReviewIsRequired ==
    <<"review", "is", "required", "by", "reviewers", "with", "write", "access">>

ReviewsAreRequired ==
    <<"reviews", "are", "required", "by", "reviewers", "with", "write", "access">>

MsgOneReview == <<"At", "least", "1", "approving">> \o ReviewIsRequired \o <<".">>

MsgTwoReviews == <<"At", "least", "2", "approving">> \o ReviewsAreRequired \o <<".">>

MsgNotMergeable == <<"Pull", "Request", "is", "not", "mergeable">>

MsgBaseModified == <<"Base", "branch", "was", "modified", ".", "Review", "and", "try", "again", ".">>

MsgTimeout == <<"network", "timeout">>

\* What a rejected octokit.pulls.merge promise can carry: a falsy value, an
\* error without a message, an error with a message.
ErrFalsy == [truthy |-> FALSE, hasMessage |-> FALSE, message |-> <<>>]

ErrNoMessage == [truthy |-> TRUE, hasMessage |-> FALSE, message |-> <<>>]

Err(m) == [truthy |-> TRUE, hasMessage |-> TRUE, message |-> m]

\* Errors of a call the remote refused (the pull request is left unmerged).
RefusalErrors ==
    {ErrFalsy, ErrNoMessage, Err(<<>>), Err(MsgOneReview), Err(MsgTwoReviews),
     Err(MsgNotMergeable), Err(MsgBaseModified)}

\* Errors of a call whose answer was lost on the way back.
TransportErrors == {ErrNoMessage, Err(MsgTimeout)}

\* A merge response: whether the call was made, whether the promise resolved, whether the merge took
\* effect on the remote, and the rejection value.
MergeOk == [called |-> TRUE, resolved |-> TRUE, effect |-> TRUE, e |-> ErrFalsy]

MergeResponses(alreadyMerged) ==
    {[called |-> TRUE, resolved |-> FALSE, effect |-> FALSE, e |-> x] : x \in RefusalErrors}
    \cup (IF alreadyMerged THEN {}
          ELSE {MergeOk}
               \cup {[called |-> TRUE, resolved |-> FALSE, effect |-> TRUE, e |-> x] :
                        x \in TransportErrors})

NoResponse == [called |-> FALSE, resolved |-> FALSE, effect |-> FALSE, e |-> ErrFalsy]

\* ------------------------------------------------------------------- state

VARIABLES
    config,         \* context.config, read-only
    pullRequest,    \* the snapshot passed in at entry (body is rewritten)
    remoteMerged,   \* the remote's merged flag of the pull request
    mergedByUs,     \* a merge call of this invocation took effect
    mergeSeen,      \* how the merge was seen to succeed: "none", "call", "refetch"
    pc,             \* position in merge()
    stage,          \* which retry() run is active: "none", "ready", "merge"
    run,            \* retry()'s count of attempts that returned "retry"
    outcome,        \* what the last attempt of the run returned
    retryResult,    \* what retry() returned, NULL while it runs
    pr,             \* the snapshot getPullRequest returned to the attempt
    response,       \* the answer to the attempt's merge call
    checks,         \* check runs fetched by skipPullRequest
    reviews,        \* reviews fetched by skipPullRequest
    skip,           \* skipPullRequest's local flag
    skipped,        \* skipPullRequest returned true
    result,         \* "pending", "true", "false" or "throw"
    thrown,         \* "none", "skip", "config", "remote"
    attempts,       \* per stage: attempt invocations (immediate and retry)
    firstOutcome,   \* per stage: what the immediate attempt returned
    retried,        \* per stage: retry attempts that returned "retry"
    exhausted,      \* per stage: calls of the exhaustion callback
    readyChecks,    \* calls of checkReady
    refetches,      \* per stage: getPullRequest calls
    mergeCalls,     \* octokit.pulls.merge calls
    mergeShas,      \* the sha of each merge call
    removeCalls,    \* labels for which issues.removeLabel was called
    branch,         \* getBranch / deleteRef calls and the fetched protection
    cleanupErrors   \* cleanup calls that were rejected

vars == <<config, pullRequest, remoteMerged, mergedByUs, mergeSeen, pc, stage, run, outcome,
          retryResult, pr, response, checks, reviews, skip, skipped, result,
          thrown, attempts, firstOutcome, retried, exhausted, readyChecks,
          refetches, mergeCalls, mergeShas, removeCalls, branch,
          cleanupErrors>>

NoBranch == [getBranch |-> 0, protected |-> FALSE, deleteRef |-> 0]

Stages == {"ready", "merge"}

ZeroPerStage == [s \in Stages |-> 0]

NoSnapshot == [fetched |-> FALSE, merged |-> FALSE, mergeable_state |-> NULL,
               state |-> "open", labels |-> {}, sha |-> EntrySha]

\* What can have become of the pull request since the snapshot passed in was
\* taken, in the fields neither retry attempt reads: nothing, a push to the
\* head branch, a close, a blocking label gained, a required label lost.
RemoteChanges ==
    {[state |-> "open", labels |-> pullRequest.labels, sha |-> s] : s \in Shas}
    \cup {[state |-> "closed", labels |-> pullRequest.labels, sha |-> EntrySha],
          [state |-> "open", labels |-> pullRequest.labels \cup {"wip"}, sha |-> EntrySha],
          [state |-> "open", labels |-> pullRequest.labels \ {"automerge"}, sha |-> EntrySha]}

\* Snapshots octokit.pulls.get can return while the remote's merged flag is m,
\* with mergeable_state among states.
Snapshots(m, states) ==
    {[fetched |-> TRUE, merged |-> m, mergeable_state |-> ms, state |-> c.state,
      labels |-> c.labels, sha |-> c.sha] : ms \in states, c \in RemoteChanges}

\* ---------------------------------------------------------------- inputs

\* The extraction pattern and the body it is applied to. Patterns: "" (not
\* configured), "plain" (no capturing group), "group" (a capturing group that
\* takes part in every match), "optgroup" (a capturing group that need not).
\* Bodies: "other" (no pattern matches), "notes" (every pattern matches, an
\* optional group takes no part).
RegexCases ==
    {<<"", "other">>, <<"plain", "other">>, <<"plain", "notes">>,
     <<"group", "notes">>, <<"optgroup", "notes">>}

\* The author filter and the author.
AuthorCases == {<<"", "alice">>, <<"bot", "bot">>, <<"bot", "alice">>}

\* mergeRequireStatuses: absent, or a list of names (None / Some encoding).
StatusPolicies == {{}, {{}}, {{"ci"}}}

Config(f, mf, b, r, st, ap, rx, au, rm, db, n) ==
    [failOnMergeSkip |-> f, mergeForks |-> mf, blocking |-> b, required |-> r,
     mergeRequireStatuses |-> st, mergeRequireApproval |-> ap,
     mergeCommitMessageRegex |-> rx, mergeFilterAuthor |-> au,
     mergeRemoveLabels |-> rm, mergeDeleteBranch |-> db, mergeRetries |-> n]

PullRequest(s, m, h, l, ms, u, b) ==
    [state |-> s, merged |-> m, headRepo |-> h, baseRepo |-> BaseRepo,
     labels |-> l, mergeable_state |-> ms, user |-> u, body |-> b,
     sha |-> EntrySha]

InitWith(c, p) ==
    /\ config = c
    /\ pullRequest = p
    /\ remoteMerged = p.merged
    /\ mergedByUs = FALSE
    /\ mergeSeen = "none"
    /\ pc = "skipPullRequest"
    /\ stage = "none"
    /\ run = 0
    /\ outcome = NULL
    /\ retryResult = NULL
    /\ pr = NoSnapshot
    /\ response = NoResponse
    /\ checks = {}
    /\ reviews = <<>>
    /\ skip = FALSE
    /\ skipped = FALSE
    /\ result = "pending"
    /\ thrown = "none"
    /\ attempts = ZeroPerStage
    /\ firstOutcome = [s \in Stages |-> NULL]
    /\ retried = ZeroPerStage
    /\ exhausted = ZeroPerStage
    /\ readyChecks = 0
    /\ refetches = ZeroPerStage
    /\ mergeCalls = 0
    /\ mergeShas = {}
    /\ removeCalls = {}
    /\ branch = NoBranch
    /\ cleanupErrors = {}

\* ------------------------------------------------------------ pure helpers

\* Mutant: the test for an absent mergeable_state is left out.
checkReadyWithoutNull(snapshot) ==
    IF snapshot.mergeable_state \in MAYBE_READY
    THEN "success"
    ELSE IF snapshot.mergeable_state \in NOT_READY
         THEN "failure"
         ELSE "retry"

\* checkReady(pullRequest): the three-way classification of mergeable_state.
checkReady(snapshot) ==
    IF snapshot.mergeable_state = NULL \/ snapshot.mergeable_state \in MAYBE_READY
    THEN "success"
    ELSE IF snapshot.mergeable_state \in NOT_READY
         THEN "failure"
         ELSE "retry"

\* Mutant: only the singular phrase is looked for.
checkMergeErrorSingular(e) ==
    LET m == IF e.truthy /\ e.hasMessage THEN e.message ELSE <<>>
    IN  IF includes(m, ReviewIsRequired) THEN "failure" ELSE "retry"

\* Mutant: every error is taken for transient.
checkMergeErrorTransient(e) == "retry"

\* checkMergeError(e): m is e.message, or "" for a falsy e or a missing message.
checkMergeError(e) ==
    LET m == IF e.truthy /\ e.hasMessage THEN e.message ELSE <<>>
    IN  IF includes(m, ReviewIsRequired) \/ includes(m, ReviewsAreRequired)
        THEN "failure"
        ELSE "retry"

\* mergePullRequest's return value for the answer to its merge call.
mergePullRequest(rsp) ==
    IF rsp.resolved THEN "success" ELSE checkMergeError(rsp.e)

\* Mutant: every match is taken to have a first group.
RegExpExecGroupAlways(regex, body) ==
    [matched |-> body = "notes",
     group1  |-> body = "notes"]

\* new RegExp(regex, "sm").exec(body): whether it matched and whether m[1] is
\* defined.
RegExpExec(regex, body) ==
    [matched |-> body = "notes",
     group1  |-> body = "notes" /\ regex = "group"]

\* Mutant: the blocking-label loop is left out.
snapshotSkipNoBlocking(c, p) ==
    \/ p.state # "open"
    \/ p.merged = TRUE
    \/ (p.headRepo # p.baseRepo /\ ~c.mergeForks)
    \/ \E required \in c.required : required \notin p.labels

\* skipPullRequest, the conditions on the snapshot alone (lines 154-185).
snapshotSkip(c, p) ==
    \/ p.state # "open"
    \/ p.merged = TRUE
    \/ (p.headRepo # p.baseRepo /\ ~c.mergeForks)
    \/ \E label \in p.labels : label \in c.blocking
    \/ \E required \in c.required : required \notin p.labels

\* skipPullRequest, the required check runs (lines 189-204).
checksSkip(requiredNames, checkRuns) ==
    \E required \in requiredNames :
        \/ \E status \in checkRuns :
              status.name = required /\ status.conclusion # "success"
        \/ ~\E status \in checkRuns : status.name = required

\* skipPullRequest, the approval count (lines 209-218).
numApprovals(approvals) ==
    Cardinality({i \in 1..Len(approvals) : approvals[i] = "APPROVED"})

approvalSkip(approvals) ==
    numApprovals(approvals) = 0

\* mergeRequireStatuses is truthy when it is present, an empty list included.
requiresStatuses(c) == c.mergeRequireStatuses # {}

requiredStatuses(c) == UNION c.mergeRequireStatuses

\* The order of pullRequest.labels.
LabelOrder == <<"automerge", "wip">>

\* removeLabels: the names of the labels to remove, in the pull request's order.
labelNames(p, mergeRemoveLabels) ==
    SelectSeq(LabelOrder, LAMBDA name : name \in p.labels /\ name \in mergeRemoveLabels)

Range(f) == {f[i] : i \in DOMAIN f}

\* ------------------------------------------------------------------ merge()

Finish(value, error) ==
    /\ result' = value
    /\ thrown' = error
    /\ pc' = "done"

\* skipPullRequest (lines 147-224). fetchChecks and fetchReviews are awaited
\* without a handler: a rejection leaves merge() as a thrown error.
skipPullRequest ==
    /\ pc = "skipPullRequest"
    /\ \/ /\ requiresStatuses(config)
          /\ Finish("throw", "remote")
          /\ UNCHANGED <<checks, reviews, skip>>
       \/ \E fetchedChecks \in (IF requiresStatuses(config) THEN SUBSET CheckRuns ELSE {{}}) :
            LET afterChecks == snapshotSkip(config, pullRequest)
                                 \/ checksSkip(requiredStatuses(config), fetchedChecks)
            IN  \/ /\ config.mergeRequireApproval
                   /\ Finish("throw", "remote")
                   /\ UNCHANGED <<checks, reviews, skip>>
                \/ \E fetchedReviews \in (IF config.mergeRequireApproval
                                          THEN ReviewLists ELSE {<<>>}) :
                     /\ checks' = fetchedChecks
                     /\ reviews' = fetchedReviews
                     /\ skip' = (afterChecks
                                 \/ (config.mergeRequireApproval /\ approvalSkip(fetchedReviews)))
                     /\ pc' = "skipReturned"
                     /\ UNCHANGED <<result, thrown>>
    /\ UNCHANGED <<config, pullRequest, remoteMerged, mergedByUs, mergeSeen, stage, run, outcome,
                   retryResult, pr, response, skipped, attempts, firstOutcome,
                   retried, exhausted, readyChecks, refetches, mergeCalls, mergeShas,
                   removeCalls, branch, cleanupErrors>>

\* Mutant: skipPullRequest's value is not looked at.
skipVerdictAlwaysContinue(skipValue, c) == "continue"

\* Mutant: the fail-on-skip test is left out.
skipVerdictNeverThrows(skipValue, c) ==
    IF skipValue THEN "false" ELSE "continue"

\* merge(), lines 7-12: what becomes of skipPullRequest's value.
skipVerdict(skipValue, c) ==
    IF skipValue
    THEN IF c.failOnMergeSkip THEN "throw" ELSE "false"
    ELSE "continue"

\* merge(), lines 7-38: the skip gate, then the call of waitUntilReady.
mergeSkipGate ==
    /\ pc = "skipReturned"
    /\ skipped' = skip
    /\ checks' = {}
    /\ reviews' = <<>>
    /\ skip' = FALSE
    /\ LET verdict == skipVerdict(skip, config)
       IN  IF verdict = "continue"
           THEN /\ pc' = "retryInitial"
                /\ stage' = "ready"
                /\ UNCHANGED <<result, thrown>>
           ELSE /\ Finish(verdict, IF verdict = "throw" THEN "skip" ELSE "none")
                /\ UNCHANGED stage
    /\ UNCHANGED <<config, pullRequest, remoteMerged, mergedByUs, mergeSeen, run, outcome,
                   retryResult, pr, response, attempts, firstOutcome, retried,
                   exhausted, readyChecks, refetches, mergeCalls, mergeShas,
                   removeCalls, branch, cleanupErrors>>

\* ------------------------------------------------------------------ retry()

\* Mutant: one retry more than configured is asked for.
retriesOneMore == config.mergeRetries + 1

\* retry(retries, retrySleep, doInitial, doRetry, doFailed) of lib/common.js.
\* The retries argument of both runs is config.mergeRetries.
retries == config.mergeRetries

\* The loop takes another retry attempt while the attempts that returned
\* "retry" so far (the immediate one included) do not exceed retries.
retryLoopCond == run <= retries

\* An attempt function returned: hand its value to retry().
Returned(o) ==
    /\ outcome' = o
    /\ attempts' = [attempts EXCEPT ![stage] = @ + 1]
    /\ firstOutcome' = [firstOutcome EXCEPT ![stage] = IF pc = "retryInitial" THEN o ELSE @]
    /\ retried' = [retried EXCEPT ![stage] = IF pc = "retryLoop" /\ o = "retry" THEN @ + 1 ELSE @]
    /\ pc' = "retryInspect"
    /\ UNCHANGED <<result, thrown>>

\* An attempt function rejected: retry() has no handler, nor has merge().
Rejected ==
    /\ outcome' = NULL
    /\ attempts' = [attempts EXCEPT ![stage] = @ + 1]
    /\ UNCHANGED <<firstOutcome, retried>>
    /\ Finish("throw", "remote")

\* Mutant: a failure does not end the run, it is tried again.
retryVerdictFailureRetried(o) ==
    CASE o = "success" -> "true"
      [] OTHER -> "again"

\* Mutant: a successful attempt ends the run with false.
retryVerdictSuccessLost(o) ==
    CASE o = "retry" -> "again"
      [] OTHER -> "false"

\* The three-way rule on an attempt's value: retry() returns true, returns
\* false, or goes on.
retryVerdict(o) ==
    CASE o = "success" -> "true"
      [] o = "failure" -> "false"
      [] OTHER -> "again"

retryInspect ==
    /\ pc = "retryInspect"
    /\ LET verdict == retryVerdict(outcome)
       IN  IF verdict = "again"
           THEN /\ run' = run + 1
                /\ pc' = "retryLoop"
                /\ UNCHANGED retryResult
           ELSE /\ retryResult' = verdict
                /\ pc' = "retryReturned"
                /\ UNCHANGED run
    /\ pr' = NoSnapshot
    /\ response' = NoResponse
    /\ UNCHANGED <<config, pullRequest, remoteMerged, mergedByUs, mergeSeen, stage,
                   outcome, checks, reviews, skip, skipped, result, thrown, attempts,
                   firstOutcome, retried, exhausted, readyChecks, refetches,
                   mergeCalls, mergeShas, removeCalls, branch, cleanupErrors>>

\* Mutant: the loop is never left.
retriesUsedUpNever == FALSE

\* The loop is left when its condition fails.
retriesUsedUp == ~retryLoopCond

\* The attempts are used up: the exhaustion callback, then false.
retryExhausted ==
    /\ pc = "retryLoop"
    /\ retriesUsedUp
    /\ exhausted' = [exhausted EXCEPT ![stage] = @ + 1]
    /\ retryResult' = "false"
    /\ pc' = "retryReturned"
    /\ UNCHANGED <<config, pullRequest, remoteMerged, mergedByUs, mergeSeen, stage, run, outcome,
                   pr, response, checks, reviews, skip, skipped, result, thrown,
                   attempts, firstOutcome, retried, readyChecks, refetches,
                   mergeCalls, mergeShas, removeCalls, branch, cleanupErrors>>

\* --------------------------------------------------------- waitUntilReady

\* getPullRequest resolves with the remote's snapshot; the pull request may
\* have been merged by someone else in the meantime.
RemoteSnapshots(states) == UNION {Snapshots(m, states) : m \in {remoteMerged, TRUE}}

\* tryMerge's retry attempt does not read mergeable_state: two values stand
\* for all.
UnreadStates == {"clean", "blocked"}

\* getPullRequest rejects.
getPullRequestRejects ==
    /\ refetches' = [refetches EXCEPT ![stage] = @ + 1]
    /\ UNCHANGED remoteMerged

\* waitUntilReady's immediate attempt (line 230).
readyInitial ==
    /\ pc = "retryInitial"
    /\ stage = "ready"
    /\ readyChecks' = readyChecks + 1
    /\ Returned(checkReady(pullRequest))
    /\ UNCHANGED <<config, pullRequest, remoteMerged, mergedByUs, mergeSeen, stage, run,
                   retryResult, pr, response, checks, reviews, skip, skipped,
                   exhausted, refetches, mergeCalls, mergeShas, removeCalls, branch,
                   cleanupErrors>>

\* waitUntilReady's retry attempt (lines 231-234).
readyRetry ==
    /\ pc = "retryLoop"
    /\ stage = "ready"
    /\ retryLoopCond
    /\ \/ /\ getPullRequestRejects
          /\ Rejected
          /\ UNCHANGED <<pr, readyChecks>>
       \/ \E snapshot \in RemoteSnapshots(MergeableStates) :
            /\ refetches' = [refetches EXCEPT ![stage] = @ + 1]
            /\ remoteMerged' = snapshot.merged
            /\ pr' = snapshot
            /\ readyChecks' = readyChecks + 1
            /\ Returned(checkReady(snapshot))
    /\ UNCHANGED <<config, pullRequest, mergedByUs, mergeSeen, stage, run, retryResult,
                   response, checks, reviews, skip, skipped, exhausted, mergeCalls,
                   mergeShas, removeCalls, branch, cleanupErrors>>

\* Mutant: the author filter is left out.
filteredByAuthorNever(c, p) == FALSE

\* merge(), line 56: an author filter is configured and the author is not it.
filteredByAuthor(c, p) ==
    c.mergeFilterAuthor # "" /\ p.user # c.mergeFilterAuthor

\* merge(), lines 39-69: the readiness result, the extraction pattern, the
\* author filter, then the call of tryMerge.
mergeAfterReady ==
    /\ pc = "retryReturned"
    /\ stage = "ready"
    /\ LET regex == config.mergeCommitMessageRegex
           m == RegExpExec(regex, pullRequest.body)
           rewrite == regex # "" /\ m.matched
       IN  IF retryResult = "false"
           THEN /\ Finish("false", "none")
                /\ UNCHANGED <<pullRequest, stage, run, retryResult>>
           ELSE IF rewrite /\ ~m.group1
           THEN /\ Finish("throw", "config")
                /\ UNCHANGED <<pullRequest, stage, run, retryResult>>
           ELSE /\ pullRequest' = [pullRequest EXCEPT
                                     !.body = IF rewrite THEN "captured" ELSE @]
                /\ IF filteredByAuthor(config, pullRequest)
                   THEN /\ Finish("false", "none")
                        /\ UNCHANGED <<stage, run, retryResult>>
                   ELSE /\ stage' = "merge"
                        /\ run' = 0
                        /\ retryResult' = NULL
                        /\ pc' = "retryInitial"
                        /\ UNCHANGED <<result, thrown>>
    /\ outcome' = NULL
    /\ UNCHANGED <<config, remoteMerged, mergedByUs, mergeSeen, pr, response, checks,
                   reviews, skip, skipped, attempts, firstOutcome, retried,
                   exhausted, readyChecks, refetches, mergeCalls, mergeShas,
                   removeCalls, branch, cleanupErrors>>

\* ----------------------------------------------------------------- tryMerge

\* Mutant: a retry attempt sends the sha of the snapshot it re-fetched.
headOfRefetched == IF pc = "retryLoop" THEN pr'.sha ELSE pullRequest.sha

\* The sha merge() reads from the snapshot passed in (lines 16-18).
head == pullRequest.sha

\* octokit.pulls.merge is called and answers rsp (lines 325-337).
callMerge(rsp) ==
    /\ response' = rsp
    /\ mergeCalls' = mergeCalls + 1
    /\ mergeShas' = mergeShas \cup {head}
    /\ mergedByUs' = (mergedByUs \/ rsp.effect)
    /\ mergeSeen' = IF rsp.resolved THEN "call" ELSE mergeSeen
    /\ Returned(mergePullRequest(rsp))

\* tryMerge's immediate attempt (lines 278-279).
mergeInitial ==
    /\ pc = "retryInitial"
    /\ stage = "merge"
    /\ \E rsp \in MergeResponses(remoteMerged) :
         /\ callMerge(rsp)
         /\ remoteMerged' = (remoteMerged \/ rsp.effect)
    /\ UNCHANGED <<config, pullRequest, stage, run, retryResult, pr, checks, reviews,
                   skip, skipped, exhausted, readyChecks, refetches, removeCalls,
                   branch, cleanupErrors>>

\* Mutant: the retry attempt also takes a closed pull request for settled.
alreadyMergedOrClosed(snapshot) ==
    snapshot.merged = TRUE \/ snapshot.state # "open"

\* Mutant: the retry attempt never looks at the merged flag.
alreadyMergedNever(snapshot) == FALSE

\* Mutant: the retry attempt takes every re-fetched snapshot for merged.
alreadyMergedAlways(snapshot) == TRUE

\* Whether the retry attempt takes the re-fetched snapshot for merged (line 282).
alreadyMerged(snapshot) == snapshot.merged = TRUE

\* tryMerge's retry attempt (lines 280-292).
mergeRetry ==
    /\ pc = "retryLoop"
    /\ stage = "merge"
    /\ retryLoopCond
    /\ \/ /\ getPullRequestRejects
          /\ Rejected
          /\ UNCHANGED <<pr, response, mergeCalls, mergeShas, mergedByUs, mergeSeen>>
       \/ \E snapshot \in RemoteSnapshots(UnreadStates) :
            /\ refetches' = [refetches EXCEPT ![stage] = @ + 1]
            /\ pr' = snapshot
            /\ IF alreadyMerged(snapshot)
               THEN /\ Returned("success")
                    /\ remoteMerged' = snapshot.merged
                    /\ mergeSeen' = IF snapshot.merged THEN "refetch" ELSE mergeSeen
                    /\ UNCHANGED <<response, mergeCalls, mergeShas, mergedByUs>>
               ELSE \E rsp \in MergeResponses(snapshot.merged) :
                      /\ callMerge(rsp)
                      /\ remoteMerged' = (snapshot.merged \/ rsp.effect)
    /\ UNCHANGED <<config, pullRequest, stage, run, retryResult, checks, reviews,
                   skip, skipped, exhausted, readyChecks, removeCalls, branch,
                   cleanupErrors>>

\* merge(), lines 70-74: the result of tryMerge.
mergeAfterTryMerge ==
    /\ pc = "retryReturned"
    /\ stage = "merge"
    /\ IF retryResult = "false"
       THEN Finish("false", "none")
       ELSE /\ pc' = "removeLabels"
            /\ UNCHANGED <<result, thrown>>
    /\ UNCHANGED <<config, pullRequest, remoteMerged, mergedByUs, mergeSeen, stage, run, outcome,
                   retryResult, pr, response, checks, reviews, skip, skipped,
                   attempts, firstOutcome, retried, exhausted, readyChecks,
                   refetches, mergeCalls, mergeShas, removeCalls, branch,
                   cleanupErrors>>

\* ------------------------------------------------------------------ cleanup

\* merge(), lines 76-80, with removeLabels (lines 93-117): the removal calls
\* go out in order; the first rejected one ends the loop and is caught in
\* merge().
removeLabels ==
    /\ pc = "removeLabels"
    /\ LET names == labelNames(pullRequest, config.mergeRemoveLabels)
       IN  \/ /\ removeCalls' = Range(names)
              /\ UNCHANGED cleanupErrors
           \/ \E k \in 1..Len(names) :
                /\ removeCalls' = Range(SubSeq(names, 1, k))
                /\ cleanupErrors' = cleanupErrors \cup {"removeLabel"}
    /\ pc' = "deleteBranch"
    /\ UNCHANGED <<config, pullRequest, remoteMerged, mergedByUs, mergeSeen, stage, run, outcome,
                   retryResult, pr, response, checks, reviews, skip, skipped, result,
                   thrown, attempts, firstOutcome, retried, exhausted, readyChecks,
                   refetches, mergeCalls, mergeShas, branch>>

\* Mutant: a caught cleanup error turns the result into false.
cleanupResultFailsOnError(errors) ==
    IF errors = {} THEN "true" ELSE "false"

\* merge(), lines 76-90: both catch handlers log and go on, and line 90
\* returns true whatever was caught.
cleanupResult(errors) == "true"

\* Mutant: a fork's branch is treated like a branch of the base repository.
fromExternalRepositoryNever(p) == FALSE

\* deleteBranch, line 120: the head repository is not the base repository.
fromExternalRepository(p) == p.headRepo # p.baseRepo

\* merge(), lines 82-90, with deleteBranch (lines 119-145).
deleteBranch ==
    /\ pc = "deleteBranch"
    /\ IF ~config.mergeDeleteBranch \/ fromExternalRepository(pullRequest)
       THEN UNCHANGED <<branch, cleanupErrors>>
       ELSE \/ /\ branch' = [branch EXCEPT !.getBranch = @ + 1]
               /\ cleanupErrors' = cleanupErrors \cup {"getBranch"}
            \/ /\ branch' = [branch EXCEPT !.getBranch = @ + 1, !.protected = TRUE]
               /\ UNCHANGED cleanupErrors
            \/ /\ branch' = [branch EXCEPT !.getBranch = @ + 1, !.deleteRef = @ + 1]
               /\ UNCHANGED cleanupErrors
            \/ /\ branch' = [branch EXCEPT !.getBranch = @ + 1, !.deleteRef = @ + 1]
               /\ cleanupErrors' = cleanupErrors \cup {"deleteRef"}
    /\ Finish(cleanupResult(cleanupErrors'), "none")
    /\ UNCHANGED <<config, pullRequest, remoteMerged, mergedByUs, mergeSeen, stage, run, outcome,
                   retryResult, pr, response, checks, reviews, skip, skipped,
                   attempts, firstOutcome, retried, exhausted, readyChecks,
                   refetches, mergeCalls, mergeShas, removeCalls>>

\* ------------------------------------------------------------ specification

Next ==
    \/ skipPullRequest
    \/ mergeSkipGate
    \/ readyInitial
    \/ readyRetry
    \/ retryInspect
    \/ retryExhausted
    \/ mergeAfterReady
    \/ mergeInitial
    \/ mergeRetry
    \/ mergeAfterTryMerge
    \/ removeLabels
    \/ deleteBranch

\* mergeable_state of the snapshot passed in: absent, a ready one, the two
\* not-ready ones, an unlisted one.
EntryStates == {NULL, "clean", "dirty", "draft", "blocked"}

\* The flow: the retry count, the extraction pattern, the author filter, the
\* cleanup options and fail-on-skip vary; eligibility is one of a few cases
\* <<mergeForks, mergeRequireStatuses, mergeRequireApproval, state, headRepo,
\* labels>> under the label policy blocking = {wip}, required = {automerge}.
EligibilityCases ==
    {<<FALSE, {}, FALSE, "open", BaseRepo, {"automerge"}>>,
     <<FALSE, {{"ci"}}, TRUE, "open", BaseRepo, {"automerge"}>>,
     <<TRUE, {}, FALSE, "open", ForkRepo, {"automerge"}>>,
     <<FALSE, {}, FALSE, "open", ForkRepo, {"automerge"}>>,
     <<FALSE, {}, FALSE, "closed", BaseRepo, {"automerge"}>>,
     <<FALSE, {}, FALSE, "open", BaseRepo, Labels>>}

InitFlow ==
    \E f \in BOOLEAN, rx \in RegexCases, au \in AuthorCases, rm \in {{}, Labels},
       db \in BOOLEAN, n \in 0..MaxRetries, ms \in EntryStates,
       e \in EligibilityCases :
        InitWith(Config(f, e[1], {"wip"}, {"automerge"}, e[2], e[3], rx[1], au[1],
                        rm, db, n),
                 PullRequest(e[4], FALSE, e[5], e[6], ms, au[2], rx[2]))

\* Eligibility: every policy against every pull request, with the rest of
\* the flow fixed (no extraction pattern, no author filter, full cleanup).
InitEligibility ==
    \E f \in BOOLEAN, mf \in BOOLEAN, b \in {{}, {"wip"}}, r \in {{}, {"automerge"}},
       st \in StatusPolicies, ap \in BOOLEAN, s \in {"open", "closed"},
       m \in BOOLEAN, h \in {BaseRepo, ForkRepo}, l \in SUBSET Labels,
       ms \in {"clean", "blocked"} :
        InitWith(Config(f, mf, b, r, st, ap, "", "", Labels, TRUE, MaxRetries),
                 PullRequest(s, m, h, l, ms, "alice", "other"))

Init == InitFlow \/ InitEligibility

Spec == Init /\ [][Next]_vars

\* The flow with full cleanup configured (without it the two cleanup steps
\* issue no call).
InitTermination ==
    \E f \in BOOLEAN, rx \in RegexCases, au \in AuthorCases, n \in 0..MaxRetries,
       ms \in EntryStates, e \in EligibilityCases :
        InitWith(Config(f, e[1], {"wip"}, {"automerge"}, e[2], e[3], rx[1], au[1],
                        Labels, TRUE, n),
                 PullRequest(e[4], FALSE, e[5], e[6], ms, au[2], rx[2]))

\* Every awaited response eventually arrives and every sleep eventually
\* ends: a step that can be taken is eventually taken.
FairSpec == InitTermination /\ [][Next]_vars /\ WF_vars(Next)

\* ------------------------------------------------------------------ claims

Done == pc = "done"

Returns == Done /\ result \in {"true", "false"}

NoRemoteCall ==
    /\ mergeCalls = 0
    /\ readyChecks = 0
    /\ \A s \in Stages : attempts[s] = 0 /\ refetches[s] = 0
    /\ removeCalls = {}
    /\ branch = NoBranch

\* C1 as stated: merge() returns true exactly when a merge call issued by this
\* invocation took effect on the remote.
C1_TrueIffMergedByThisInvocation ==
    Returns => ((result = "true") <=> mergedByUs)

\* C1, amended: merge() returns true exactly when the merge stage saw the
\* merge succeed: a merge call of this invocation was answered successfully,
\* or a re-fetch of a retry attempt reported the pull request merged (by this
\* invocation or by someone else). A skipped pull request never yields true.
C1_TrueIffMergeSeen ==
    Returns =>
        /\ (result = "true") <=> (mergeSeen # "none")
        /\ skipped => result = "false"

\* C1 witness: true is returned for a pull request that someone else merged.
C1_Witness ==
    Returns /\ result = "true" /\ mergeSeen = "refetch" /\ ~mergedByUs /\ mergeCalls > 0

\* The skip conditions of the snapshot passed in, as the claim lists them.
EntrySkipCondition ==
    \/ pullRequest.state # "open"
    \/ pullRequest.merged
    \/ (pullRequest.headRepo # pullRequest.baseRepo /\ ~config.mergeForks)
    \/ pullRequest.labels \cap config.blocking # {}
    \/ ~(config.required \subseteq pullRequest.labels)

\* The skip conditions of the fetched check runs and reviews.
FetchedSkipCondition ==
    \/ /\ config.mergeRequireStatuses # {}
       /\ \E name \in UNION config.mergeRequireStatuses :
            \/ [name |-> name, conclusion |-> "success"] \notin checks
            \/ \E run_ \in checks : run_.name = name /\ run_.conclusion # "success"
    \/ /\ config.mergeRequireApproval
       /\ \A i \in 1..Len(reviews) : reviews[i] # "APPROVED"

\* C2: a pull request that satisfies a skip condition at entry gets no merge
\* call, no readiness polling or retry and no cleanup call: the conditions on
\* the snapshot rule out every call, the conditions on the fetched check runs
\* and reviews make skipPullRequest return true, and after that no call is made.
C2_SkipMeansNoCall ==
    /\ EntrySkipCondition => NoRemoteCall
    /\ (pc = "skipReturned" /\ (EntrySkipCondition \/ FetchedSkipCondition)) => skip
    /\ skipped => NoRemoteCall /\ Done

\* C2 witness: a pull request skipped for its check runs or reviews alone.
C2_Witness ==
    Done /\ skipped /\ ~EntrySkipCondition /\ NoRemoteCall

\* C3: when the skip check triggers, merge() throws if fail-on-skip is set and
\* returns false without an error otherwise.
C3_FailOnSkip ==
    skipped =>
        /\ Done
        /\ IF config.failOnMergeSkip
           THEN result = "throw" /\ thrown = "skip"
           ELSE result = "false" /\ thrown = "none"

\* C3 witness: a skipped pull request under fail-on-skip ends in the error.
C3_Witness ==
    Done /\ skipped /\ config.failOnMergeSkip /\ result = "throw"

\* C4 as stated: merge() ends in a thrown error only when fail-on-skip is set
\* and the skip check triggered, or when the extraction pattern matched and
\* has no capturing group; a failing remote call never makes it throw.
C4_ThrowsOnlyForSkipOrPattern ==
    (Done /\ result = "throw") =>
        \/ config.failOnMergeSkip /\ skipped
        \/ config.mergeCommitMessageRegex = "plain" /\ pullRequest.body = "notes"

\* The mergeable_state the attempt under inspection classified.
ClassifiedState ==
    IF pr.fetched THEN pr.mergeable_state ELSE pullRequest.mergeable_state

\* C5: readiness classification is a total three-way function: clean,
\* has_hooks, unknown, unstable and null give success; dirty and draft give
\* failure; every other value gives retry.
C5_ReadinessClassification ==
    (pc = "retryInspect" /\ stage = "ready") =>
        /\ ClassifiedState \in {"clean", "has_hooks", "unknown", "unstable", NULL}
              => outcome = "success"
        /\ ClassifiedState \in {"dirty", "draft"} => outcome = "failure"
        /\ ClassifiedState \notin {"clean", "has_hooks", "unknown", "unstable", NULL,
                                   "dirty", "draft"}
              => outcome = "retry"

\* C5 witness: a re-fetched snapshot without mergeable_state is classified.
C5_Witness ==
    /\ pc = "retryInspect" /\ stage = "ready"
    /\ pr.fetched /\ pr.mergeable_state = NULL /\ outcome = "success"

\* The message checkMergeError reads from the rejection under inspection.
RejectionMessage ==
    IF response.e.truthy /\ response.e.hasMessage THEN response.e.message ELSE <<>>

MergeCallInspected ==
    pc = "retryInspect" /\ stage = "merge" /\ response.called

\* C6 as stated: a successful merge call gives success, a failed one whose
\* message contains "review is required by reviewers with write access" gives
\* failure, a failed one with any other message or none gives retry.
C6_SingularPhraseOnly ==
    MergeCallInspected =>
        outcome = IF response.resolved THEN "success"
                  ELSE IF includes(RejectionMessage, ReviewIsRequired) THEN "failure"
                  ELSE "retry"

\* C6, amended: failure is also the outcome of a failed call whose message
\* contains "reviews are required by reviewers with write access"; a failed
\* call with a message containing neither phrase, or with none, gives retry.
C6_EitherPhrase ==
    MergeCallInspected =>
        outcome = IF response.resolved THEN "success"
                  ELSE IF \/ includes(RejectionMessage, ReviewIsRequired)
                          \/ includes(RejectionMessage, ReviewsAreRequired)
                       THEN "failure"
                  ELSE "retry"

\* C6 witness: a merge call rejected with the plural phrase is a failure.
C6_Witness ==
    MergeCallInspected /\ response.e = Err(MsgTwoReviews) /\ outcome = "failure"

\* C7: the first merge attempt issues the merge call without a re-fetch;
\* every retry attempt re-fetches first, yields success without a merge call
\* when the re-fetch reports the pull request merged, and issues a merge call
\* only when it reports it not merged; once a merge call of this invocation
\* has taken effect no further merge call is issued.
C7_IdempotenceGuard ==
    /\ [](pc = "retryInspect" /\ stage = "merge" =>
            IF attempts["merge"] = 1
            THEN refetches["merge"] = 0 /\ mergeCalls = 1 /\ response.called
            ELSE /\ pr.fetched
                 /\ refetches["merge"] = attempts["merge"] - 1
                 /\ pr.merged => ~response.called /\ outcome = "success"
                 /\ ~pr.merged => response.called)
    /\ [][mergedByUs => mergeCalls' = mergeCalls]_vars

\* C7 witness: the answer of a merge call that took effect was lost, and the
\* retry attempt sees the pull request merged and issues no call.
C7_Witness ==
    /\ pc = "retryInspect" /\ stage = "merge" /\ attempts["merge"] = 2
    /\ mergedByUs /\ pr.merged /\ ~response.called /\ outcome = "success"

\* C8: when the immediate attempt returns failure no retry attempt is made
\* and the run returns false: a first merge call rejected for a missing
\* review is followed by no re-fetch and no second merge call, and a snapshot
\* passed in as dirty or draft is followed by no re-fetch.
C8_FailureIsTerminal ==
    /\ \A s \in Stages :
         firstOutcome[s] = "failure" =>
            /\ attempts[s] = 1 /\ refetches[s] = 0 /\ exhausted[s] = 0
            /\ stage = s /\ pc \in {"retryInspect", "retryReturned", "done"}
            /\ pc = "retryReturned" => retryResult = "false"
            /\ Done => result = "false"
    /\ firstOutcome["merge"] = "failure" => mergeCalls = 1
    /\ (MergeCallInspected /\ attempts["merge"] = 1 /\ ~response.resolved
          /\ includes(RejectionMessage, ReviewIsRequired))
         => firstOutcome["merge"] = "failure"
    /\ pullRequest.mergeable_state \in {"dirty", "draft"} =>
         refetches["ready"] = 0 /\ firstOutcome["ready"] \in {NULL, "failure"}

\* C8 witness: the first merge call was rejected for a missing review and
\* merge() returned false after that one call.
C8_Witness ==
    /\ Done /\ result = "false" /\ firstOutcome["merge"] = "failure"
    /\ mergeCalls = 1 /\ refetches["merge"] = 0

RetriedThenSucceeded ==
    /\ pc = "retryReturned"
    /\ config.mergeRetries >= 1
    /\ firstOutcome[stage] = "retry"
    /\ retried[stage] = config.mergeRetries - 1
    /\ outcome = "success"

C11_ExhaustionCallback ==
    /\ \A s \in Stages :
         /\ exhausted[s] <= 1
         /\ exhausted[s] = 1 =>
              /\ firstOutcome[s] = "retry"
              /\ retried[s] = config.mergeRetries
              /\ attempts[s] = config.mergeRetries + 1
              /\ Done => result = "false"
    /\ (pc = "retryReturned" /\ firstOutcome[stage] = "retry"
          /\ retried[stage] = config.mergeRetries)
         => retryResult = "false" /\ exhausted[stage] = 1
    /\ (pc = "retryReturned" /\ outcome \in {"success", "failure"})
         => /\ exhausted[stage] = 0
            /\ retryResult = IF outcome = "success" THEN "true" ELSE "false"

\* C11 witness: the merge run used up its two retry attempts and returned
\* false after the callback.
C11_Witness ==
    /\ pc = "retryReturned" /\ stage = "merge" /\ config.mergeRetries = 2
    /\ attempts["merge"] = 3 /\ exhausted["merge"] = 1 /\ retryResult = "false"

\* A pattern without a capturing group is configured and matches the body
\* passed in (a body the pattern does not match is never rewritten).
NoGroupPatternMatches ==
    config.mergeCommitMessageRegex = "plain" /\ pullRequest.body # "other"

\* C12 as stated: with such a pattern every invocation ends in the
\* configuration error, and no merge call is ever issued.
C12_AlwaysConfigError ==
    NoGroupPatternMatches =>
        /\ mergeCalls = 0
        /\ Done => result = "throw" /\ thrown = "config"

\* C12, amended: with such a pattern no merge call is ever issued (nor any
\* cleanup call), and the invocation ends in the configuration error exactly
\* when it reaches the extraction step, that is when the pull request was not
\* skipped and the readiness wait returned true; a skipped pull request, a
\* readiness wait that returned false and a rejected re-fetch end the
\* invocation before the pattern is looked at.
C12_ConfigErrorOnceReady ==
    NoGroupPatternMatches =>
        /\ mergeCalls = 0 /\ attempts["merge"] = 0
        /\ removeCalls = {} /\ branch = NoBranch
        /\ Done =>
             /\ (result = "throw" /\ thrown = "config")
                  <=> (~skipped /\ stage = "ready" /\ retryResult = "true")
             /\ skipped => thrown \in {"none", "skip"}
             /\ (~skipped /\ retryResult = "false") => result = "false"

\* C12 witness: the configuration error is raised after the readiness wait
\* polled the remote, and no merge call was issued.
C12_Witness ==
    /\ NoGroupPatternMatches /\ Done /\ result = "throw" /\ thrown = "config"
    /\ refetches["ready"] >= 1 /\ mergeCalls = 0

\* The merge stage has reported success: tryMerge returned true.
MergeStageSucceeded ==
    /\ stage = "merge" /\ retryResult = "true"
    /\ pc \in {"retryReturned", "removeLabels", "deleteBranch", "done"}

C14_NoDeletionOfForkOrProtected ==
    /\ pullRequest.headRepo # pullRequest.baseRepo => branch = NoBranch
    /\ branch.protected => branch.getBranch = 1 /\ branch.deleteRef = 0
    /\ branch.deleteRef <= branch.getBranch /\ branch.getBranch <= 1
    /\ ~config.mergeDeleteBranch => branch = NoBranch

\* C14 witness: a fork's pull request was merged under the branch-deletion
\* flag and merge() returned without a branch call.
C14_Witness ==
    /\ Done /\ result = "true" /\ config.mergeDeleteBranch
    /\ pullRequest.headRepo = ForkRepo /\ branch = NoBranch

\* C15 as stated: after a successful merge a removal call is issued for each
\* label in the intersection of the pull request's labels and the removal
\* set, also after a removal call was rejected, and for no other label.
C15_EveryLabelOfIntersection ==
    /\ removeCalls \subseteq (pullRequest.labels \cap config.mergeRemoveLabels)
    /\ (Done /\ result = "true") =>
         removeCalls = pullRequest.labels \cap config.mergeRemoveLabels

\* C16: every stage is gated by the previous stage's outcome. The readiness
\* wait starts only when the skip check returned false, and only it re-fetches
\* and classifies for readiness; the merge stage starts only when the
\* readiness wait returned true, and merge calls are issued only in it; a
\* label-removal, branch-fetch or delete-reference call is issued only after
\* the merge stage returned true.
C16_StagesGated ==
    [][/\ (stage' = "ready" /\ stage # "ready")
            => (pc = "skipReturned" /\ ~skip)
       /\ (refetches'["ready"] # refetches["ready"] \/ readyChecks' # readyChecks)
            => (stage = "ready" /\ ~skipped /\ retryResult = NULL)
       /\ (stage' = "merge" /\ stage # "merge")
            => (stage = "ready" /\ pc = "retryReturned" /\ retryResult = "true")
       /\ (mergeCalls' # mergeCalls \/ refetches'["merge"] # refetches["merge"])
            => (stage = "merge" /\ retryResult = NULL)
       /\ (removeCalls' # removeCalls \/ branch' # branch)
            => MergeStageSucceeded
      ]_vars

\* C16 witness: an invocation that went through every stage: it polled for
\* readiness, issued a merge call, removed a label and deleted the branch.
C16_Witness ==
    /\ Done /\ result = "true" /\ refetches["ready"] >= 1 /\ mergeCalls >= 1
    /\ removeCalls # {} /\ branch.deleteRef = 1

\* C17: every invocation of merge() terminates: when every response arrives
\* and every sleep ends, the invocation eventually returns true, returns
\* false or raises an error.
C17_Terminates ==
    <>(Done /\ result \in {"true", "false", "throw"})

\* C17 witness: an invocation that ended after both runs took every attempt
\* the largest retry count allows.
C17_Witness ==
    /\ Done /\ result \in {"true", "false", "throw"}
    /\ config.mergeRetries = MaxRetries
    /\ attempts["ready"] = MaxRetries + 1 /\ attempts["merge"] = MaxRetries + 1

\* C18: every merge call of the invocation carries the head commit hash of
\* the snapshot passed in, also a merge call of a retry attempt whose re-fetch
\* reported another head commit; the hash of a re-fetched snapshot is never
\* sent.
C18_MergeCallsCarryEntrySha ==
    /\ mergeShas \subseteq {pullRequest.sha}
    /\ pullRequest.sha = EntrySha
    /\ mergeCalls > 0 => mergeShas = {EntrySha}

\* C18 witness: a retry attempt re-fetched a snapshot with a pushed head
\* commit and issued its merge call with the hash passed in.
C18_Witness ==
    /\ pc = "retryInspect" /\ stage = "merge" /\ pr.fetched
    /\ pr.sha # EntrySha /\ response.called /\ mergeShas = {EntrySha}

\* The re-fetched snapshot under inspection would make skipPullRequest skip.
RefetchedWouldSkip ==
    /\ pr.fetched
    /\ \/ pr.state # "open"
       \/ pr.labels \cap config.blocking # {}
       \/ ~(config.required \subseteq pr.labels)

\* C19: the skip conditions are evaluated once, on the snapshot passed in and
\* before any re-fetch: skipPullRequest's flag, its fetched check runs and
\* reviews and its verdict change only before the readiness wait starts. A
\* re-fetched snapshot is read for mergeable_state in the readiness wait and
\* for merged in the merge retry, and for nothing else: whatever its state and
\* labels, the readiness attempt returns the classification of its
\* mergeable_state and the merge attempt issues a merge call exactly when it
\* is not reported merged.
C19_SkipEvaluatedOnce ==
    /\ [](/\ pc \in {"skipPullRequest", "skipReturned"} =>
               \A s \in Stages : refetches[s] = 0 /\ attempts[s] = 0
          /\ (pc = "retryInspect" /\ pr.fetched) =>
               IF stage = "ready"
               THEN outcome = checkReady([mergeable_state |-> pr.mergeable_state])
               ELSE response.called <=> ~pr.merged)
    /\ [][(skip' # skip \/ skipped' # skipped \/ checks' # checks \/ reviews' # reviews)
            => (pc \in {"skipPullRequest", "skipReturned"} /\ stage = "none")]_vars

\* C19 witness: after the skip check passed, the merge retry re-fetched the
\* pull request with a blocking label and issued a merge call that merged it.
C19_Witness ==
    /\ pc = "retryInspect" /\ stage = "merge" /\ ~skipped
    /\ RefetchedWouldSkip /\ "wip" \in pr.labels /\ "wip" \in config.blocking
    /\ response.called /\ response.resolved /\ mergedByUs

\* An author filter is configured and the pull request's author differs.
AuthorDiffers ==
    config.mergeFilterAuthor # "" /\ pullRequest.user # config.mergeFilterAuthor

\* C20: when an author filter is configured and the author differs, no merge
\* call is ever issued (nor a cleanup call). The filter is looked at only
\* after the readiness wait returned true and the extraction step passed:
\* then merge() returns false without an error, also under fail-on-skip. An
\* invocation that ends earlier ends as it would without the filter: with the
\* skip verdict, with false from the readiness wait, or with an error, the
\* configuration error of the extraction step among them.
C20_AuthorFilter ==
    AuthorDiffers =>
        /\ mergeCalls = 0 /\ attempts["merge"] = 0 /\ stage # "merge"
        /\ removeCalls = {} /\ branch = NoBranch
        /\ result # "true"
        /\ thrown = "skip" => skipped
        /\ (Done /\ ~skipped /\ retryResult = "true" /\ thrown # "config")
             => result = "false" /\ thrown = "none"
        /\ (Done /\ ~skipped /\ retryResult = "true" /\ thrown = "config")
             => config.mergeCommitMessageRegex # "" /\ attempts["ready"] >= 1

\* C20 witness: under fail-on-skip the readiness wait polled the remote and
\* returned true, and the filter ended the invocation with false.
C20_Witness ==
    /\ AuthorDiffers /\ config.failOnMergeSkip /\ Done /\ ~skipped
    /\ refetches["ready"] >= 1 /\ retryResult = "true"
    /\ result = "false" /\ thrown = "none" /\ mergeCalls = 0

====
